---------------------------- MODULE Spec2Model ----------------------------
(***************************************************************************)
(* The dual-store session lifecycle of the user-management backend:        *)
(* SessionService (backend/src/auth/auth.service.ts, second half) over     *)
(* RedisService (the fast store) and PrismaService.userSession (the        *)
(* durable store).                                                         *)
(*                                                                         *)
(* Time is counted in ticks; TicksPerSecond ticks make one second, so that *)
(* the code's conversion of milliseconds to whole seconds                  *)
(* (Math.floor(ms / 1000)) loses something, as it does in the program.     *)
(***************************************************************************)
EXTENDS Integers, Sequences, FiniteSets, TLC

\* ------------------------------------------------------------------ bounds
MaxTime == 3            \* the clock stops here
TicksPerSecond == 2     \* resolution of the clock below one second
MaxDelay == 2           \* ticks a slow createSession takes at most
MaxExpiry == 5          \* latest expiry of a durable record left by an earlier run

\* -------------------------------------------------------- program constants
sessionTtl == 1         \* SESSION_TTL in seconds, as the expiry test sets it
maxRetries == 5         \* PrismaService.maxRetries
NoExpiry == -1          \* a key stored by SET without EX never expires

Users == {"u1", "u2"}
\* Credentials: "t1" is signed for u1, "forged" does not verify.
Tokens == {"t1", "forged"}
\* The ids generateSessionId hands out, in the order it does.
SessionIds == {1, 2}
NoUserId == "-"
NoToken == "-"

VARIABLES
    now,        \* Date.now(), in ticks
    fast,       \* Redis keys session:<id>
    index,      \* Redis hashes user_sessions:<userId>
    db,         \* table user_sessions
    status,     \* column users.status
    nextId,     \* the next id generateSessionId returns
    invalidated, \* ids on which invalidateSession completed without a store fault
    calls,      \* the calls in progress store call by store call, and their locals
    start,      \* the stores and the time when the calls in progress began
    isConnected,        \* PrismaService.isConnected
    connectionRetries   \* PrismaService.connectionRetries

\* What the session calls made in one piece leave alone.
racing == <<calls, start>>
prisma == <<isConnected, connectionRetries>>

vars == <<now, fast, index, db, status, nextId, invalidated, calls, start,
          isConnected, connectionRetries>>

\* ------------------------------------------------------------- fast store
\* A Redis string key: nothing, a JSON document, or text that does not parse.
NoVal == [kind |-> "none", userId |-> NoUserId, jwtToken |-> NoToken,
          expiresAt |-> 0, ttlAt |-> 0]
NoHash == [members |-> {}, ttlAt |-> NoExpiry]

\* A key with a time to live is gone once the clock reaches it.
Live(ttlAt, t) == ttlAt = NoExpiry \/ t < ttlAt

\* RedisService.set: SETEX when a ttl is given and not 0, plain SET otherwise.
RedisSet(f, key, val, ttlSeconds, t) ==
    [f EXCEPT ![key] = [val EXCEPT !.ttlAt =
        IF ttlSeconds # 0 THEN t + ttlSeconds * TicksPerSecond ELSE NoExpiry]]

RedisGet(f, key, t) ==
    IF f[key].kind # "none" /\ Live(f[key].ttlAt, t) THEN f[key] ELSE NoVal

RedisDel(f, key) == [f EXCEPT ![key] = NoVal]

\* HSET creates the hash when it is missing (or has expired) and keeps the
\* time to live of a hash that exists.
RedisHset(ix, key, field, t) ==
    IF ix[key].members # {} /\ Live(ix[key].ttlAt, t)
    THEN [ix EXCEPT ![key].members = @ \cup {field}]
    ELSE [ix EXCEPT ![key] = [members |-> {field}, ttlAt |-> NoExpiry]]

RedisHgetall(ix, key, t) ==
    IF Live(ix[key].ttlAt, t) THEN ix[key].members ELSE {}

\* HDEL removes the hash with its last field.
RedisHdel(ix, key, field) ==
    IF ix[key].members \ {field} = {}
    THEN [ix EXCEPT ![key] = NoHash]
    ELSE [ix EXCEPT ![key].members = @ \ {field}]

\* EXPIRE does nothing to a key that does not exist.
RedisExpire(ix, key, ttlSeconds, t) ==
    IF ix[key].members # {} /\ Live(ix[key].ttlAt, t)
    THEN [ix EXCEPT ![key].ttlAt = t + ttlSeconds * TicksPerSecond]
    ELSE ix

\* A variant of RedisDelHash that leaves the hash in place.
RedisDelHashSkipped(ix, key) == ix

RedisDelHash(ix, key) == [ix EXCEPT ![key] = NoHash]

\* Redis drops the keys whose time to live has run out.
ExpireKeys(f, t) ==
    [k \in DOMAIN f |-> IF f[k].kind # "none" /\ Live(f[k].ttlAt, t) THEN f[k] ELSE NoVal]
ExpireHashes(ix, t) ==
    [k \in DOMAIN ix |-> IF ix[k].members # {} /\ Live(ix[k].ttlAt, t) THEN ix[k] ELSE NoHash]

\* ---------------------------------------------------------- durable store
NoRow == [exists |-> FALSE, userId |-> NoUserId, token |-> NoToken,
          expiresAt |-> 0, isActive |-> FALSE]

\* userSession.create: the primary key and the unique token are enforced.
DbCreateAllowed(d, id, token) ==
    /\ ~d[id].exists
    /\ \A k \in DOMAIN d : d[k].exists => d[k].token # token

DbCreate(d, id, userId, token, expiresAt) ==
    [d EXCEPT ![id] = [exists |-> TRUE, userId |-> userId, token |-> token,
                       expiresAt |-> expiresAt, isActive |-> TRUE]]

\* A variant of DbFindActive that does not look at isActive.
DbFindAny(d, id) == IF d[id].exists THEN d[id] ELSE NoRow

\* userSession.findUnique({ where: { id, isActive: true } })
DbFindActive(d, id) == IF d[id].exists /\ d[id].isActive THEN d[id] ELSE NoRow

\* A variant of DbDeactivate that writes an inactive row when there is none.
DbDeactivateUpsert(d, id) ==
    IF d[id].exists THEN [d EXCEPT ![id].isActive = FALSE]
    ELSE [d EXCEPT ![id] = [NoRow EXCEPT !.exists = TRUE]]

\* A variant of DbDeactivate that leaves the row active.
DbDeactivateSkipped(d, id) == d

\* userSession.updateMany({ where: { id }, data: { isActive: false } })
DbDeactivate(d, id) ==
    IF d[id].exists THEN [d EXCEPT ![id].isActive = FALSE] ELSE d

\* A variant of DbDeactivateUser that deletes the rows of the user.
DbDeactivateUserDeletes(d, userId) ==
    [k \in DOMAIN d |-> IF d[k].exists /\ d[k].userId = userId THEN NoRow ELSE d[k]]

\* userSession.updateMany({ where: { userId, isActive: true }, data: { isActive: false } })
DbDeactivateUser(d, userId) ==
    [k \in DOMAIN d |->
        IF d[k].exists /\ d[k].userId = userId /\ d[k].isActive
        THEN [d[k] EXCEPT !.isActive = FALSE] ELSE d[k]]

\* userSession.updateMany({ where: { id }, data: { expiresAt } })
DbSetExpiry(d, id, expiresAt) ==
    IF d[id].exists THEN [d EXCEPT ![id].expiresAt = expiresAt] ELSE d

\* A variant of DbStale that selects the inactive rows only.
DbStaleInactiveOnly(d, t) == {k \in DOMAIN d : d[k].exists /\ ~d[k].isActive}

\* where: { OR: [{ expiresAt: { lt: now } }, { isActive: false }] }
DbStale(d, t) == {k \in DOMAIN d : d[k].exists /\ (d[k].expiresAt < t \/ ~d[k].isActive)}

\* A variant of DbDeleteStale that deletes one row at a time.
DbDeleteStaleOne(d, t) ==
    [k \in DOMAIN d |->
        IF k \in DbStale(d, t) /\ \A j \in DbStale(d, t) : k <= j THEN NoRow ELSE d[k]]

DbDeleteStale(d, t) == [k \in DOMAIN d |-> IF k \in DbStale(d, t) THEN NoRow ELSE d[k]]

\* ---------------------------------------------------------------- tokens
\* JwtService.verify: the payload's sub, or a failure.
JwtVerifies(token) == token = "t1"
JwtSub(token) == "u1"

\* --------------------------------------------------------- session data
NoData == [userId |-> NoUserId, jwtToken |-> NoToken, expiresAt |-> 0]

\* A variant of NewSessionData that loses the credential.
NewSessionDataNoToken(userId, jwtToken, expiresAt) ==
    [userId |-> userId, jwtToken |-> NoToken, expiresAt |-> expiresAt]

\* The SessionData createSession builds (email, role, address and agent are
\* carried along unread and are left out).
NewSessionData(userId, jwtToken, expiresAt) ==
    [userId |-> userId, jwtToken |-> jwtToken, expiresAt |-> expiresAt]

\* JSON.stringify(sessionData): the text stored under the session key.
JsonStringify(data) ==
    [kind |-> "json", userId |-> data.userId, jwtToken |-> data.jwtToken,
     expiresAt |-> data.expiresAt, ttlAt |-> 0]

\* A variant of JsonParses for a parser that never throws.
JsonParsesAnything(val) == TRUE

\* JSON.parse throws on text that is no JSON document.
JsonParses(val) == val.kind = "json"
JsonParse(val) ==
    [userId |-> val.userId, jwtToken |-> val.jwtToken, expiresAt |-> val.expiresAt]

CorruptVal == [kind |-> "corrupt", userId |-> NoUserId, jwtToken |-> NoToken,
               expiresAt |-> 0, ttlAt |-> 0]

\* A variant of ExpiryFrom that forgets the time to live.
ExpiryFromNow(t) == t

\* new Date(Date.now() + this.sessionTtl * 1000)
ExpiryFrom(t) == t + sessionTtl * TicksPerSecond

\* A variant of HasExpired with the comparison turned round.
HasExpiredTurned(expiresAt, t) == expiresAt > t

\* new Date(sessionData.expiresAt) < new Date()
HasExpired(expiresAt, t) == expiresAt < t

\* A variant of RestoreTtl that rounds up.
RestoreTtlCeil(expiresAt, t) == (expiresAt - t + TicksPerSecond - 1) \div TicksPerSecond

\* Math.floor((dbSession.expiresAt.getTime() - Date.now()) / 1000)
RestoreTtl(expiresAt, t) == (expiresAt - t) \div TicksPerSecond

\* The three stores a handler works on, passed from call to call.
Stores(f, ix, d) == [fast |-> f, index |-> ix, db |-> d]

\* ------------------------------------------------------------- handlers
\* Every handler is given the stores S, the time t it runs at, and dbOk:
\* whether the durable store answers during the call (it throws otherwise).

\* A variant of createSession that keeps the fast-store writes only when the
\* durable write went through.
createSessionAllOrNothing(S, id, userId, jwtToken, t0, t, dbOk) ==
    LET expiresAt == t0 + sessionTtl * TicksPerSecond
        data == NewSessionData(userId, jwtToken, expiresAt)
        f1 == RedisSet(S.fast, id, JsonStringify(data), sessionTtl, t)
        ix2 == RedisExpire(RedisHset(S.index, userId, id, t), userId, sessionTtl, t)
        stored == dbOk /\ DbCreateAllowed(S.db, id, jwtToken)
    IN  IF stored
        THEN [S |-> Stores(f1, ix2, DbCreate(S.db, id, userId, jwtToken, expiresAt)),
              ret |-> id, stored |-> TRUE]
        ELSE [S |-> S, ret |-> id, stored |-> FALSE]

\* createSession: t0 is Date.now() when the expiry is computed, t the time
\* the fast store is written (t0 <= t).
createSession(S, id, userId, jwtToken, t0, t, dbOk) ==
    LET expiresAt == ExpiryFrom(t0)
        data == NewSessionData(userId, jwtToken, expiresAt)
        f1 == RedisSet(S.fast, id, JsonStringify(data), sessionTtl, t)
        ix1 == RedisHset(S.index, userId, id, t)
        ix2 == RedisExpire(ix1, userId, sessionTtl, t)
        stored == dbOk /\ DbCreateAllowed(S.db, id, jwtToken)
        d1 == IF stored THEN DbCreate(S.db, id, userId, jwtToken, expiresAt) ELSE S.db
    IN  [S |-> Stores(f1, ix2, d1), ret |-> id, stored |-> stored]

\* createSession when a fast-store call throws: failAt names the call (set at
\* 325, hset at 333, expire at 334), which has no effect; the exception leaves
\* createSession before the durable write.
RedisFaults == {"set", "hset", "expire"}

\* A variant of createSessionRedisFault that writes the durable record first.
createSessionRedisFaultDurableFirst(S, id, userId, jwtToken, t0, t, failAt) ==
    [S |-> createSession(S, id, userId, jwtToken, t0, t, TRUE).S,
     ret |-> "raise", stored |-> TRUE]

createSessionRedisFault(S, id, userId, jwtToken, t0, t, failAt) ==
    LET data == NewSessionData(userId, jwtToken, ExpiryFrom(t0))
        f1 == IF failAt = "set" THEN S.fast
              ELSE RedisSet(S.fast, id, JsonStringify(data), sessionTtl, t)
        ix1 == IF failAt \in {"set", "hset"} THEN S.index
               ELSE RedisHset(S.index, userId, id, t)
    IN  [S |-> Stores(f1, ix1, S.db), ret |-> "raise", stored |-> FALSE]

invalidateSession(S, id, t, dbOk) ==
    LET val == RedisGet(S.fast, id, t)
        ix1 == IF val.kind # "none" /\ JsonParses(val)
               THEN RedisHdel(S.index, JsonParse(val).userId, id)
               ELSE S.index
        f1 == RedisDel(S.fast, id)
        d1 == IF dbOk THEN DbDeactivate(S.db, id) ELSE S.db
    IN  Stores(f1, ix1, d1)

\* What validateSession returns: "session" with the data, "absent" (null),
\* or "raise" when the durable query throws; dbq tells whether the durable
\* store was queried.
Validated(S, ret, data, dbq) == [S |-> S, ret |-> ret, data |-> data, dbq |-> dbq]

\* A variant of validateSessionRecover that returns the durable record without
\* writing it back to the fast store.
validateSessionRecoverNoRestore(S, id, t, dbOk) ==
    LET row == DbFindActive(S.db, id)
        data == NewSessionData(row.userId, row.token, row.expiresAt)
    IN  IF ~dbOk THEN Validated(S, "raise", NoData, TRUE)
        ELSE IF ~row.exists \/ row.expiresAt < t \/ (row.expiresAt - t) \div TicksPerSecond <= 0
        THEN Validated(S, "absent", NoData, TRUE)
        ELSE Validated(S, "session", data, TRUE)

validateSessionRecover(S, id, t, dbOk) ==
    LET row == DbFindActive(S.db, id)
        data == NewSessionData(row.userId, row.token, row.expiresAt)
        ttl == RestoreTtl(row.expiresAt, t)
    IN  IF ~dbOk THEN Validated(S, "raise", NoData, TRUE)
        ELSE IF ~row.exists \/ HasExpired(row.expiresAt, t)
        THEN Validated(S, "absent", NoData, TRUE)
        ELSE IF ttl > 0
        THEN Validated(Stores(RedisSet(S.fast, id, JsonStringify(data), ttl, t),
                              S.index, S.db), "session", data, TRUE)
        ELSE Validated(S, "absent", NoData, TRUE)

\* A variant of validateSession that renews the key's time to live on a hit.
validateSessionTouches(S, id, t, dbOk) ==
    LET val == RedisGet(S.fast, id, t)
    IN  IF val.kind = "none" THEN validateSessionRecover(S, id, t, dbOk)
        ELSE IF ~JsonParses(val) \/ HasExpired(JsonParse(val).expiresAt, t)
        THEN Validated(invalidateSession(S, id, t, dbOk), "absent", NoData, FALSE)
        ELSE Validated(Stores(RedisSet(S.fast, id, val, sessionTtl, t), S.index, S.db),
                       "session", JsonParse(val), FALSE)

\* A variant of validateSession that refuses an expired record and leaves it
\* in the fast store.
validateSessionLeavesKey(S, id, t, dbOk) ==
    LET val == RedisGet(S.fast, id, t)
    IN  IF val.kind = "none" THEN validateSessionRecover(S, id, t, dbOk)
        ELSE IF ~JsonParses(val)
        THEN Validated(invalidateSession(S, id, t, dbOk), "absent", NoData, FALSE)
        ELSE IF HasExpired(JsonParse(val).expiresAt, t)
        THEN Validated(S, "absent", NoData, FALSE)
        ELSE Validated(S, "session", JsonParse(val), FALSE)

validateSession(S, id, t, dbOk) ==
    LET val == RedisGet(S.fast, id, t)
    IN  IF val.kind = "none" THEN validateSessionRecover(S, id, t, dbOk)
        ELSE IF ~JsonParses(val)
        THEN Validated(invalidateSession(S, id, t, dbOk), "absent", NoData, FALSE)
        ELSE IF HasExpired(JsonParse(val).expiresAt, t)
        THEN Validated(invalidateSession(S, id, t, dbOk), "absent", NoData, FALSE)
        ELSE Validated(S, "session", JsonParse(val), FALSE)

\* Promise.all over the ids of the user's hash: each invalidation touches its
\* own key, field and row, so the order does not matter.
RECURSIVE InvalidateEach(_, _, _, _)
InvalidateEach(S, ids, t, dbOk) ==
    IF ids = {} THEN S
    ELSE LET id == CHOOSE x \in ids : \A y \in ids : x <= y
         IN  InvalidateEach(invalidateSession(S, id, t, dbOk), ids \ {id}, t, dbOk)

invalidateAllUserSessions(S, userId, t, dbOk) ==
    LET ids == RedisHgetall(S.index, userId, t)
        S1 == InvalidateEach(S, ids, t, dbOk)
        ix1 == RedisDelHash(S1.index, userId)
        d1 == IF dbOk THEN DbDeactivateUser(S1.db, userId) ELSE S1.db
    IN  Stores(S1.fast, ix1, d1)

refreshSession(S, id, t, dbOk) ==
    LET v == validateSession(S, id, t, dbOk)
        newExpiresAt == ExpiryFrom(t)
        data == [v.data EXCEPT !.expiresAt = newExpiresAt]
        f1 == RedisSet(v.S.fast, id, JsonStringify(data), sessionTtl, t)
        ix1 == RedisExpire(v.S.index, data.userId, sessionTtl, t)
        d1 == IF dbOk THEN DbSetExpiry(v.S.db, id, newExpiresAt) ELSE v.S.db
    IN  IF v.ret = "raise" THEN [S |-> v.S, ret |-> "raise"]
        ELSE IF v.ret = "absent" THEN [S |-> v.S, ret |-> "false"]
        ELSE [S |-> Stores(f1, ix1, d1), ret |-> "true"]

\* The loop of getUserSessions over Object.keys of the hash, in key order.
RECURSIVE ValidateEach(_, _, _, _, _)
ValidateEach(S, ids, t, dbOk, acc) ==
    IF ids = {} THEN [S |-> S, ret |-> "list", list |-> acc]
    ELSE LET id == CHOOSE x \in ids : \A y \in ids : x <= y
             v == validateSession(S, id, t, dbOk)
         IN  IF v.ret = "raise" THEN [S |-> v.S, ret |-> "raise", list |-> <<>>]
             ELSE ValidateEach(v.S, ids \ {id}, t, dbOk,
                               IF v.ret = "session" THEN Append(acc, v.data) ELSE acc)

getUserSessions(S, userId, t, dbOk) ==
    ValidateEach(S, RedisHgetall(S.index, userId, t), t, dbOk, <<>>)

\* A variant of EvictEach that deletes the keys and leaves the hashes alone.
RECURSIVE EvictEachKeysOnly(_, _, _)
EvictEachKeysOnly(S, ids, d) ==
    IF ids = {} THEN S
    ELSE LET id == CHOOSE x \in ids : \A y \in ids : x <= y
         IN  EvictEachKeysOnly(Stores(RedisDel(S.fast, id), S.index, S.db), ids \ {id}, d)

RECURSIVE EvictEach(_, _, _)
EvictEach(S, ids, d) ==
    IF ids = {} THEN S
    ELSE LET id == CHOOSE x \in ids : \A y \in ids : x <= y
         IN  EvictEach(Stores(RedisDel(S.fast, id), RedisHdel(S.index, d[id].userId, id), S.db),
                       ids \ {id}, d)

\* cleanupExpiredSessions: the whole body is inside one try/catch.
cleanupExpiredSessions(S, t, dbOk) ==
    IF ~dbOk THEN S
    ELSE LET S1 == EvictEach(S, DbStale(S.db, t), S.db)
         IN  Stores(S1.fast, S1.index, DbDeleteStale(S1.db, t))

\* A variant of UserIsActive that accepts every status.
UserIsActiveAlways(st, userId) == TRUE

\* cleanupExpiredSessions when a fast-store call of its loop throws: failAt
\* names the call (del at 550, hdel at 553) and failId the row it is made for;
\* the rows before it are evicted, the catch ends the call and deleteMany is
\* not reached. Without a stale row failId the call runs through.
CleanupFaults == {"del", "hdel"}

\* A variant of cleanupExpiredSessionsRedisFault without the try/catch.
cleanupExpiredSessionsRedisFaultThrows(S, t, failId, failAt) ==
    IF failId \in DbStale(S.db, t) THEN [S |-> S, ret |-> "raise"]
    ELSE [S |-> cleanupExpiredSessions(S, t, TRUE), ret |-> "done"]

cleanupExpiredSessionsRedisFault(S, t, failId, failAt) ==
    LET stale == DbStale(S.db, t)
        S1 == EvictEach(S, {k \in stale : k < failId}, S.db)
        f1 == IF failAt = "hdel" THEN RedisDel(S1.fast, failId) ELSE S1.fast
    IN  IF failId \in stale THEN [S |-> Stores(f1, S1.index, S1.db), ret |-> "done"]
        ELSE [S |-> cleanupExpiredSessions(S, t, TRUE), ret |-> "done"]

\* if (!user || user.status !== 'ACTIVE'): every user of Users has a row.
UserIsActive(st, userId) == st[userId] = "ACTIVE"

\* A variant of validateSessionToken that refuses without invalidating.
validateSessionTokenKeeps(S, id, t, dbOk, st) ==
    LET v == validateSession(S, id, t, dbOk)
        sub == JwtSub(v.data.jwtToken)
    IN  IF v.ret = "raise" THEN [S |-> v.S, ret |-> "raise", user |-> NoUserId]
        ELSE IF v.ret = "session" /\ JwtVerifies(v.data.jwtToken) /\ dbOk /\ st[sub] = "ACTIVE"
        THEN [S |-> v.S, ret |-> "user", user |-> sub]
        ELSE [S |-> v.S, ret |-> "absent", user |-> NoUserId]

\* validateSessionToken: "user" with the user's id, "absent", or "raise".
validateSessionToken(S, id, t, dbOk, st) ==
    LET v == validateSession(S, id, t, dbOk)
        sub == JwtSub(v.data.jwtToken)
        gone == [S |-> invalidateSession(v.S, id, t, dbOk), ret |-> "absent", user |-> NoUserId]
    IN  IF v.ret = "raise" THEN [S |-> v.S, ret |-> "raise", user |-> NoUserId]
        ELSE IF v.ret = "absent" THEN [S |-> v.S, ret |-> "absent", user |-> NoUserId]
        ELSE IF ~JwtVerifies(v.data.jwtToken) THEN gone
        ELSE IF ~dbOk THEN gone
        ELSE IF ~UserIsActive(st, sub) THEN gone
        ELSE [S |-> v.S, ret |-> "user", user |-> sub]

\* ------------------------------------------------ calls, store call by store call
\* Two callers; each runs refreshSession or invalidateSession one store call
\* at a time. pc names the store call a caller makes next; data, userId, ttl
\* are the locals of the call.
Procs == {"a", "b"}
RacedOps == {"refresh", "invalidate"}

NoCall == [op |-> "idle", id |-> 1, pc |-> "idle", data |-> NoData,
           userId |-> NoUserId, ttl |-> 0, ret |-> "none"]

RefreshPcs == {"get", "findUnique", "restore", "set", "expire", "updateMany"}
InvalidatePcs == {"inv_get", "inv_hdel", "inv_del", "inv_updateMany"}

Stepped(S, c) == [S |-> S, c |-> c]

\* One store call of refreshSession (with the validateSession inside it), made
\* at time t, and the code that runs up to the next store call.
refreshSessionStep(S, c, t) ==
    LET val == RedisGet(S.fast, c.id, t)
        row == DbFindActive(S.db, c.id)
        newData == [c.data EXCEPT !.expiresAt = ExpiryFrom(t)]
    IN  CASE c.pc = "get" ->
                 IF val.kind = "none" THEN Stepped(S, [c EXCEPT !.pc = "findUnique"])
                 ELSE IF ~JsonParses(val) THEN Stepped(S, [c EXCEPT !.pc = "inv_get"])
                 ELSE IF HasExpired(JsonParse(val).expiresAt, t)
                 THEN Stepped(S, [c EXCEPT !.pc = "inv_get"])
                 ELSE Stepped(S, [c EXCEPT !.pc = "set", !.data = JsonParse(val)])
          [] c.pc = "findUnique" ->
                 IF ~row.exists \/ HasExpired(row.expiresAt, t)
                 THEN Stepped(S, [c EXCEPT !.pc = "done", !.ret = "false"])
                 ELSE IF RestoreTtl(row.expiresAt, t) > 0
                 THEN Stepped(S, [c EXCEPT !.pc = "restore",
                                           !.data = NewSessionData(row.userId, row.token, row.expiresAt),
                                           !.ttl = RestoreTtl(row.expiresAt, t)])
                 ELSE Stepped(S, [c EXCEPT !.pc = "done", !.ret = "false"])
          [] c.pc = "restore" ->
                 Stepped(Stores(RedisSet(S.fast, c.id, JsonStringify(c.data), c.ttl, t),
                                S.index, S.db),
                         [c EXCEPT !.pc = "set"])
          [] c.pc = "set" ->
                 Stepped(Stores(RedisSet(S.fast, c.id, JsonStringify(newData), sessionTtl, t),
                                S.index, S.db),
                         [c EXCEPT !.pc = "expire", !.data = newData])
          [] c.pc = "expire" ->
                 Stepped(Stores(S.fast, RedisExpire(S.index, c.data.userId, sessionTtl, t), S.db),
                         [c EXCEPT !.pc = "updateMany"])
          [] c.pc = "updateMany" ->
                 Stepped(Stores(S.fast, S.index, DbSetExpiry(S.db, c.id, c.data.expiresAt)),
                         [c EXCEPT !.pc = "done", !.ret = "true"])

\* One store call of invalidateSession, called by itself or by the
\* validateSession inside refreshSession, which then returns false.
invalidateSessionStep(S, c, t) ==
    LET val == RedisGet(S.fast, c.id, t)
    IN  CASE c.pc = "inv_get" ->
                 IF val.kind # "none" /\ JsonParses(val)
                 THEN Stepped(S, [c EXCEPT !.pc = "inv_hdel", !.userId = JsonParse(val).userId])
                 ELSE Stepped(S, [c EXCEPT !.pc = "inv_del"])
          [] c.pc = "inv_hdel" ->
                 Stepped(Stores(S.fast, RedisHdel(S.index, c.userId, c.id), S.db),
                         [c EXCEPT !.pc = "inv_del"])
          [] c.pc = "inv_del" ->
                 Stepped(Stores(RedisDel(S.fast, c.id), S.index, S.db),
                         [c EXCEPT !.pc = "inv_updateMany"])
          [] c.pc = "inv_updateMany" ->
                 Stepped(Stores(S.fast, S.index, DbDeactivate(S.db, c.id)),
                         [c EXCEPT !.pc = "done",
                                   !.ret = IF c.op = "refresh" THEN "false" ELSE "void"])

\* ----------------------------------------------------------- AuthService
\* The values of users.status.
UserStatuses == {"ACTIVE", "INACTIVE", "SUSPENDED"}

\* The users a credential can be signed for.
Registered == {JwtSub(c) : c \in Tokens}

\* jwtService.sign({ sub: user.id, ... })
JwtSign(userId) == CHOOSE c \in Tokens : JwtVerifies(c) /\ JwtSub(c) = userId

\* A variant of login that does not look at the status of the account.
loginIgnoresStatus(S, id, found, userId, passwordOk, st, t, dbOk) ==
    IF ~dbOk THEN [S |-> S, ret |-> "raise", sessionId |-> 0]
    ELSE IF ~found \/ ~passwordOk THEN [S |-> S, ret |-> "unauthorized", sessionId |-> 0]
    ELSE [S |-> createSession(S, id, userId, JwtSign(userId), t, t, dbOk).S,
          ret |-> "ok", sessionId |-> id]

\* AuthService.login: found tells whether a user has the email, userId is that
\* user, passwordOk the outcome of comparePasswords. "unauthorized" is
\* UnauthorizedException, "raise" the error of a durable store that does not
\* answer the first query.
login(S, id, found, userId, passwordOk, st, t, dbOk) ==
    LET r == createSession(S, id, userId, JwtSign(userId), t, t, dbOk)
    IN  IF ~dbOk THEN [S |-> S, ret |-> "raise", sessionId |-> 0]
        ELSE IF ~found THEN [S |-> S, ret |-> "unauthorized", sessionId |-> 0]
        ELSE IF st[userId] # "ACTIVE" THEN [S |-> S, ret |-> "unauthorized", sessionId |-> 0]
        ELSE IF ~passwordOk THEN [S |-> S, ret |-> "unauthorized", sessionId |-> 0]
        ELSE [S |-> r.S, ret |-> "ok", sessionId |-> r.ret]

\* AuthService.logout and logoutAll hand over to the session service.
logout(S, sessionId, t, dbOk) == invalidateSession(S, sessionId, t, dbOk)
logoutAll(S, userId, t, dbOk) == invalidateAllUserSessions(S, userId, t, dbOk)

\* AuthMiddleware.use on a request that carries the bearer credential token,
\* with the stores as S: the user it sets as req.user, or NoUserId when it sets
\* none. It verifies the credential and looks the user up; the stores of the
\* session service are not read.
AuthMiddlewareUse(S, token, st) ==
    IF token = NoToken THEN NoUserId
    ELSE IF ~JwtVerifies(token) THEN NoUserId
    ELSE IF st[JwtSub(token)] = "ACTIVE" THEN JwtSub(token)
    ELSE NoUserId

\* The JWT strategy on the same request: passport verifies the credential and
\* JwtStrategy.validate looks the user of the payload up.
JwtStrategyValidate(S, token, st) ==
    IF token = NoToken \/ ~JwtVerifies(token) THEN [ret |-> "unauthorized", user |-> NoUserId]
    ELSE IF st[JwtSub(token)] # "ACTIVE" THEN [ret |-> "unauthorized", user |-> NoUserId]
    ELSE [ret |-> "user", user |-> JwtSub(token)]

\* ---------------------------------------------------------- PrismaService
Connection(c, r) == [isConnected |-> c, connectionRetries |-> r]

\* connectWithRetry: fails is the number of $connect calls that fail before
\* one succeeds, attempts counts the $connect calls made.
RECURSIVE connectWithRetry(_, _, _)
connectWithRetry(P, fails, attempts) ==
    IF P.connectionRetries < maxRetries
    THEN IF fails = 0
         THEN [P |-> Connection(TRUE, 0), ret |-> "return", attempts |-> attempts + 1]
         ELSE IF P.connectionRetries + 1 >= maxRetries
         THEN [P |-> Connection(P.isConnected, P.connectionRetries + 1),
               ret |-> "raise", attempts |-> attempts + 1]
         ELSE connectWithRetry(Connection(P.isConnected, P.connectionRetries + 1),
                               fails - 1, attempts + 1)
    ELSE [P |-> P, ret |-> "return", attempts |-> attempts]

\* ---------------------------------------------------------------- state
Cur == Stores(fast, index, db)

\* The stores S once the clock shows t: Redis has dropped what has run out.
Aged(S, t) == Stores(ExpireKeys(S.fast, t), ExpireHashes(S.index, t), S.db)

\* The stores S after the fast store lost everything.
Lost(S) == Stores([id \in SessionIds |-> NoVal], [u \in Users |-> NoHash], S.db)

\* The stores after a call that ended at time t.
Commit(S, t) ==
    /\ fast' = ExpireKeys(S.fast, t)
    /\ index' = ExpireHashes(S.index, t)
    /\ db' = S.db

\* No call is in progress.
NoStart == [S |-> Stores([id \in SessionIds |-> NoVal], [u \in Users |-> NoHash],
                         [id \in SessionIds |-> NoRow]), t |-> 0]
Quiet == \A p \in Procs : calls[p].pc = "idle"

Init ==
    /\ now = 0
    /\ fast = [id \in SessionIds |-> NoVal]
    /\ index = [u \in Users |-> NoHash]
    /\ db = [id \in SessionIds |-> NoRow]
    /\ status = [u \in Users |-> "ACTIVE"]
    /\ nextId = 1
    /\ invalidated = {}
    /\ calls = [p \in Procs |-> NoCall]
    /\ start = NoStart
    /\ isConnected = FALSE
    /\ connectionRetries = 0

\* ------------------------------------------------------------ the calls
\* db_answers: whether the durable store may fail during the call (BOOLEAN)
\* or always answers ({TRUE}).
\* generateSessionId never returns an id twice.
CallCreateSession(db_answers) ==
    \E userId \in Users, jwtToken \in Tokens, dbOk \in db_answers :
        /\ nextId \in SessionIds
        /\ LET r == createSession(Cur, nextId, userId, jwtToken, now, now, dbOk)
           IN  /\ Commit(r.S, now)
        /\ nextId' = nextId + 1
        /\ UNCHANGED <<racing, prisma, now, status, invalidated>>

CallValidateSession(db_answers) ==
    \E id \in SessionIds, dbOk \in db_answers :
        LET r == validateSession(Cur, id, now, dbOk)
        IN  /\ Commit(r.S, now)
            /\ UNCHANGED <<racing, prisma, now, status, nextId, invalidated>>

CallValidateSessionToken(db_answers) ==
    \E id \in SessionIds, dbOk \in db_answers :
        LET r == validateSessionToken(Cur, id, now, dbOk, status)
        IN  /\ Commit(r.S, now)
            /\ UNCHANGED <<racing, prisma, now, status, nextId, invalidated>>

CallInvalidateSession(db_answers) ==
    \E id \in SessionIds, dbOk \in db_answers :
        /\ Commit(invalidateSession(Cur, id, now, dbOk), now)
        /\ invalidated' = IF dbOk /\ id < nextId THEN invalidated \cup {id} ELSE invalidated
        /\ UNCHANGED <<racing, prisma, now, status, nextId>>

CallInvalidateAllUserSessions(db_answers) ==
    \E userId \in Users, dbOk \in db_answers :
        /\ Commit(invalidateAllUserSessions(Cur, userId, now, dbOk), now)
        /\ UNCHANGED <<racing, prisma, now, status, nextId, invalidated>>

CallRefreshSession(db_answers) ==
    \E id \in SessionIds, dbOk \in db_answers :
        LET r == refreshSession(Cur, id, now, dbOk)
        IN  /\ Commit(r.S, now)
            /\ UNCHANGED <<racing, prisma, now, status, nextId, invalidated>>

CallGetUserSessions(db_answers) ==
    \E userId \in Users, dbOk \in db_answers :
        LET r == getUserSessions(Cur, userId, now, dbOk)
        IN  /\ Commit(r.S, now)
            /\ UNCHANGED <<racing, prisma, now, status, nextId, invalidated>>

CallCleanupExpiredSessions(db_answers) ==
    \E dbOk \in db_answers :
        /\ Commit(cleanupExpiredSessions(Cur, now, dbOk), now)
        /\ UNCHANGED <<racing, prisma, now, status, nextId, invalidated>>

\* createSession on a slow path: Date.now() is read for the expiry, and the
\* fast store is written delay ticks later, when the call ends.
CallCreateSessionSlow(db_answers) ==
    \E userId \in Users, jwtToken \in Tokens, dbOk \in db_answers, delay \in 1..MaxDelay :
        /\ nextId \in SessionIds
        /\ now + delay <= MaxTime
        /\ LET r == createSession(Aged(Cur, now + delay), nextId, userId, jwtToken,
                                  now, now + delay, dbOk)
           IN  Commit(r.S, now + delay)
        /\ now' = now + delay
        /\ nextId' = nextId + 1
        /\ UNCHANGED <<racing, prisma, status, invalidated>>

\* createSession during which a fast-store call throws: the id is used up.
CallCreateSessionRedisFault ==
    \E userId \in Users, jwtToken \in Tokens, failAt \in RedisFaults :
        /\ nextId \in SessionIds
        /\ Commit(createSessionRedisFault(Cur, nextId, userId, jwtToken, now, now, failAt).S, now)
        /\ nextId' = nextId + 1
        /\ UNCHANGED <<racing, prisma, now, status, invalidated>>

\* cleanupExpiredSessions during which a fast-store call throws.
CallCleanupRedisFault ==
    \E failId \in SessionIds, failAt \in CleanupFaults :
        /\ failId \in DbStale(db, now)
        /\ Commit(cleanupExpiredSessionsRedisFault(Cur, now, failId, failAt).S, now)
        /\ UNCHANGED <<racing, prisma, now, status, nextId, invalidated>>

\* A login attempt; generateSessionId is reached only by a login that passes.
CallLogin ==
    \E found \in BOOLEAN, userId \in Registered, passwordOk \in BOOLEAN, dbOk \in BOOLEAN :
        /\ nextId \in SessionIds
        /\ LET r == login(Cur, nextId, found, userId, passwordOk, status, now, dbOk)
           IN  /\ Commit(r.S, now)
               /\ nextId' = IF r.ret = "ok" THEN nextId + 1 ELSE nextId
        /\ UNCHANGED <<racing, prisma, now, status, invalidated>>

\* A caller enters refreshSession or invalidateSession on an issued id; each
\* caller makes one call, "a" the first, and "b" one on the same session.
StartCall ==
    \E p \in Procs, op \in RacedOps, id \in SessionIds :
        /\ calls[p].pc = "idle"
        /\ id < nextId
        /\ p = "b" => (calls["a"].pc # "idle" /\ id = calls["a"].id)
        /\ calls' = [calls EXCEPT ![p] = [NoCall EXCEPT !.op = op, !.id = id,
                          !.pc = IF op = "refresh" THEN "get" ELSE "inv_get"]]
        /\ start' = IF Quiet THEN [S |-> Cur, t |-> now] ELSE start
        /\ UNCHANGED <<prisma, now, fast, index, db, status, nextId, invalidated>>

\* A caller makes the next store call of its refreshSession.
StepRefreshSession ==
    \E p \in Procs :
        /\ calls[p].pc \in RefreshPcs
        /\ LET r == refreshSessionStep(Cur, calls[p], now)
           IN  /\ Commit(r.S, now)
               /\ calls' = [calls EXCEPT ![p] = r.c]
        /\ UNCHANGED <<prisma, start, now, status, nextId, invalidated>>

\* A caller makes the next store call of its invalidateSession.
StepInvalidateSession ==
    \E p \in Procs :
        /\ calls[p].pc \in InvalidatePcs
        /\ LET r == invalidateSessionStep(Cur, calls[p], now)
           IN  /\ Commit(r.S, now)
               /\ calls' = [calls EXCEPT ![p] = r.c]
        /\ UNCHANGED <<prisma, start, now, status, nextId, invalidated>>

CallLogout ==
    \E sessionId \in SessionIds, dbOk \in BOOLEAN :
        /\ Commit(logout(Cur, sessionId, now, dbOk), now)
        /\ invalidated' = IF dbOk /\ sessionId < nextId
                          THEN invalidated \cup {sessionId} ELSE invalidated
        /\ UNCHANGED <<racing, prisma, now, status, nextId>>

CallLogoutAll ==
    \E userId \in Users, dbOk \in BOOLEAN :
        /\ Commit(logoutAll(Cur, userId, now, dbOk), now)
        /\ UNCHANGED <<racing, prisma, now, status, nextId, invalidated>>

\* onModuleInit awaits connectWithRetry.
CallOnModuleInit ==
    \E fails \in 0..maxRetries :
        LET r == connectWithRetry(Connection(isConnected, connectionRetries), fails, 0)
        IN  /\ isConnected' = r.P.isConnected
            /\ connectionRetries' = r.P.connectionRetries
            /\ UNCHANGED <<racing, now, fast, index, db, status, nextId, invalidated>>

\* onModuleDestroy: isConnected is cleared unless $disconnect throws.
CallOnModuleDestroy ==
    \E ok \in BOOLEAN :
        /\ isConnected' = IF ok THEN FALSE ELSE isConnected
        /\ UNCHANGED <<racing, connectionRetries, now, fast, index, db, status, nextId, invalidated>>

\* healthCheck sets isConnected to the outcome of its query.
CallHealthCheck ==
    \E ok \in BOOLEAN :
        /\ isConnected' = ok
        /\ UNCHANGED <<racing, connectionRetries, now, fast, index, db, status, nextId, invalidated>>

\* ------------------------------------------------------ the environment
Tick ==
    /\ now < MaxTime
    /\ now' = now + 1
    /\ Commit(Cur, now + 1)
    /\ UNCHANGED <<racing, prisma, status, nextId, invalidated>>

\* The fast store restarts or is flushed: every key is lost.
LoseFastStore ==
    /\ \E id \in SessionIds : fast[id].kind # "none"
    /\ fast' = [id \in SessionIds |-> NoVal]
    /\ index' = [u \in Users |-> NoHash]
    /\ UNCHANGED <<racing, prisma, now, db, status, nextId, invalidated>>

\* One session key is deleted or evicted.
LoseKey ==
    \E id \in SessionIds :
        /\ fast[id].kind # "none"
        /\ fast' = RedisDel(fast, id)
        /\ UNCHANGED <<racing, prisma, now, index, db, status, nextId, invalidated>>

\* An administrator suspends or reactivates a user.
SetStatus ==
    \E u \in {JwtSub(c) : c \in Tokens}, s \in {"ACTIVE", "SUSPENDED"} :
        /\ status[u] # s
        /\ status' = [status EXCEPT ![u] = s]
        /\ UNCHANGED <<racing, prisma, now, fast, index, db, nextId, invalidated>>

\* Somebody writes text that is no JSON under a session key, without expiry.
Corrupt ==
    \E id \in SessionIds :
        /\ RedisGet(fast, id, now).kind # "corrupt"
        /\ fast' = RedisSet(fast, id, CorruptVal, 0, now)
        /\ UNCHANGED <<racing, prisma, now, index, db, status, nextId, invalidated>>

\* An administrator sets the status of an account.
SetUserStatus ==
    \E u \in Registered, s \in UserStatuses :
        /\ status[u] # s
        /\ status' = [status EXCEPT ![u] = s]
        /\ UNCHANGED <<racing, prisma, now, fast, index, db, nextId, invalidated>>

Next ==
    \/ CallCreateSession(BOOLEAN)
    \/ CallValidateSession(BOOLEAN)
    \/ CallValidateSessionToken(BOOLEAN)
    \/ CallInvalidateSession(BOOLEAN)
    \/ CallInvalidateAllUserSessions(BOOLEAN)
    \/ CallRefreshSession(BOOLEAN)
    \/ CallGetUserSessions(BOOLEAN)
    \/ CallCleanupExpiredSessions(BOOLEAN)
    \/ Tick
    \/ LoseFastStore
    \/ LoseKey
    \/ SetStatus

Spec == Init /\ [][Next]_vars

\* The same system with a durable store that always answers.
NextReliable ==
    \/ CallCreateSession({TRUE})
    \/ CallValidateSession({TRUE})
    \/ CallValidateSessionToken({TRUE})
    \/ CallInvalidateSession({TRUE})
    \/ CallInvalidateAllUserSessions({TRUE})
    \/ CallRefreshSession({TRUE})
    \/ CallGetUserSessions({TRUE})
    \/ CallCleanupExpiredSessions({TRUE})
    \/ Tick
    \/ LoseFastStore
    \/ LoseKey
    \/ SetStatus

Reliable == Init /\ [][NextReliable]_vars

\* The system with a durable store that always answers, slow createSession
\* calls and foreign writes to the fast store.
NextAdverse ==
    \/ CallCreateSession({TRUE})
    \/ CallCreateSessionSlow({TRUE})
    \/ CallValidateSession({TRUE})
    \/ CallValidateSessionToken({TRUE})
    \/ CallInvalidateSession({TRUE})
    \/ CallInvalidateAllUserSessions({TRUE})
    \/ CallRefreshSession({TRUE})
    \/ CallGetUserSessions({TRUE})
    \/ CallCleanupExpiredSessions({TRUE})
    \/ Tick
    \/ LoseKey
    \/ Corrupt

Adverse == Init /\ [][NextAdverse]_vars

\* The system with durable-store faults and losses of fast-store data, the
\* users' statuses left as they are.
NextFaulty ==
    \/ CallCreateSession(BOOLEAN)
    \/ CallValidateSession(BOOLEAN)
    \/ CallValidateSessionToken(BOOLEAN)
    \/ CallInvalidateSession(BOOLEAN)
    \/ CallInvalidateAllUserSessions(BOOLEAN)
    \/ CallRefreshSession(BOOLEAN)
    \/ CallGetUserSessions(BOOLEAN)
    \/ CallCleanupExpiredSessions(BOOLEAN)
    \/ Tick
    \/ LoseFastStore
    \/ LoseKey

Faulty == Init /\ [][NextFaulty]_vars

\* The service starts with an empty fast store against a durable store that
\* holds the sessions of an earlier run, which may have been configured with a
\* longer SESSION_TTL: every id has been issued, and each has no row or a row
\* of u1 with its own credential and some expiry.
OldRows ==
    [SessionIds -> {NoRow} \cup
        [exists : {TRUE}, userId : {"u1"}, token : Tokens,
         expiresAt : 1..MaxExpiry, isActive : BOOLEAN]]

InitRestarted ==
    /\ now = 0
    /\ fast = [id \in SessionIds |-> NoVal]
    /\ index = [u \in Users |-> NoHash]
    /\ db \in {d \in OldRows :
                 \A i, j \in SessionIds : (i # j /\ d[i].exists /\ d[j].exists) => d[i].token # d[j].token}
    /\ status = [u \in Users |-> "ACTIVE"]
    /\ nextId = 1 + Cardinality(SessionIds)
    /\ invalidated = {}
    /\ calls = [p \in Procs |-> NoCall]
    /\ start = NoStart
    /\ isConnected = FALSE
    /\ connectionRetries = 0

NextRestarted ==
    \/ CallValidateSession({TRUE})
    \/ CallRefreshSession({TRUE})
    \/ CallInvalidateSession({TRUE})
    \/ Tick
    \/ LoseKey

Restarted == InitRestarted /\ [][NextRestarted]_vars

\* The system with a fast store whose calls may throw inside createSession
\* and cleanupExpiredSessions, and a durable store that may fail in the latter.
NextFlaky ==
    \/ CallCreateSession({TRUE})
    \/ CallCreateSessionRedisFault
    \/ CallValidateSession({TRUE})
    \/ CallInvalidateSession({TRUE})
    \/ CallInvalidateAllUserSessions({TRUE})
    \/ CallGetUserSessions({TRUE})
    \/ CallCleanupExpiredSessions(BOOLEAN)
    \/ CallCleanupRedisFault
    \/ Tick
    \/ LoseFastStore
    \/ LoseKey

Flaky == Init /\ [][NextFlaky]_vars

\* Sessions that are created by login only.
NextLogins ==
    \/ CallLogin
    \/ SetUserStatus
    \/ CallValidateSessionToken({TRUE})
    \/ CallInvalidateSession({TRUE})
    \/ CallRefreshSession({TRUE})
    \/ Tick
    \/ LoseKey

Logins == Init /\ [][NextLogins]_vars

\* refreshSession and invalidateSession calls that overlap, store call by store
\* call, on sessions created by login while no call is in progress.
NextRacing ==
    \/ Quiet /\ CallLogin
    \/ Quiet /\ LoseFastStore
    \/ StartCall
    \/ StepRefreshSession
    \/ StepInvalidateSession
    \/ Tick

Racing == Init /\ [][NextRacing]_vars

\* The application: the database service is brought up and down, users log in
\* and out and are suspended, and requests are authenticated.
NextApplication ==
    \/ CallOnModuleInit
    \/ CallOnModuleDestroy
    \/ CallHealthCheck
    \/ CallLogin
    \/ CallLogout
    \/ CallLogoutAll
    \/ CallValidateSessionToken({TRUE})
    \/ SetUserStatus
    \/ Tick

Application == Init /\ [][NextApplication]_vars

\* ================================================================ claims
Issued == {id \in SessionIds : id < nextId}

\* C1: a session that createSession has written to the fast store validates,
\* at any time before its expiry and with no call in between, with the user id
\* and the credential it was created with, whether or not the durable write
\* succeeded (and whether or not the durable store answers the validation).
C1_CreatedSessionValidates ==
    nextId \in SessionIds =>
        \A userId \in Users, jwtToken \in Tokens, dbOk \in BOOLEAN, dbOk2 \in BOOLEAN,
           t \in now..MaxTime :
            LET r == createSession(Cur, nextId, userId, jwtToken, now, now, dbOk)
                v == validateSession(Aged(r.S, t), r.ret, t, dbOk2)
            IN  t < now + sessionTtl * TicksPerSecond =>
                    /\ v.ret = "session"
                    /\ v.data.userId = userId
                    /\ v.data.jwtToken = jwtToken

\* A session without a durable record, created earlier, validates while the
\* durable store is down.
C1_Witness ==
    \E id \in Issued :
        /\ now > 0
        /\ fast[id].kind = "json"
        /\ ~db[id].exists
        /\ validateSession(Cur, id, now, FALSE).ret = "session"

\* C2: validateSession returns absent for an id that was never issued and for
\* an id on which invalidateSession has completed without a store fault,
\* whatever was called since.
C2_UnknownOrInvalidatedIsAbsent ==
    \A id \in SessionIds :
        (id \notin Issued \/ id \in invalidated) =>
            validateSession(Cur, id, now, TRUE).ret = "absent"

\* An issued session was invalidated before its expiry and its durable record
\* is still there.
C2_Witness ==
    \E id \in invalidated :
        /\ db[id].exists
        /\ ~HasExpired(db[id].expiresAt, now)
        /\ SessionIds \ Issued # {}

\* C3: validateSession never returns a record for a session whose durable
\* record is marked inactive, nor a record whose expiry has passed.
C3_NeverReturnsInactiveOrExpired ==
    \A id \in SessionIds :
        LET v == validateSession(Cur, id, now, TRUE)
        IN  v.ret = "session" =>
                /\ ~(db[id].exists /\ ~db[id].isActive)
                /\ ~HasExpired(v.data.expiresAt, now)

C5_EveryCreatedSessionIsDurable ==
    nextId \in SessionIds =>
        \A userId \in Users, jwtToken \in Tokens :
            LET r == createSession(Cur, nextId, userId, jwtToken, now, now, TRUE)
            IN  /\ r.S.db[nextId].exists /\ r.S.db[nextId].isActive
                /\ validateSession(Lost(r.S), nextId, now, TRUE).ret = "session"

\* C6: when the durable write of createSession fails, createSession returns
\* the id all the same and validateSession returns the session from the fast
\* store, without a query to the durable store.
C6_DurableFailureIsSwallowed ==
    nextId \in SessionIds =>
        \A userId \in Users, jwtToken \in Tokens, dbOk \in BOOLEAN, dbOk2 \in BOOLEAN :
            LET r == createSession(Cur, nextId, userId, jwtToken, now, now, dbOk)
                v == validateSession(r.S, r.ret, now, dbOk2)
            IN  ~r.stored =>
                    /\ r.ret = nextId
                    /\ ~r.S.db[nextId].exists
                    /\ v.ret = "session" /\ ~v.dbq
                    /\ v.data = NewSessionData(userId, jwtToken, now + sessionTtl * TicksPerSecond)

\* Two sessions are in the fast store and only one of them has a durable record.
C6_Witness ==
    \E id \in Issued, other \in Issued :
        /\ fast[id].kind = "json" /\ fast[other].kind = "json"
        /\ ~db[id].exists /\ db[other].exists
        /\ id \in index[fast[id].userId].members

C9_LogoutEverywhere ==
    \A userId \in Users, id \in SessionIds :
        LET S1 == invalidateAllUserSessions(Cur, userId, now, TRUE)
            v == validateSession(S1, id, now, TRUE)
        IN  v.ret = "session" => v.data.userId # userId

\* C10: getUserSessions(u) called after invalidateAllUserSessions(u), at once
\* or later, returns the empty list, however many sessions u had and whether or
\* not the durable store answered either call.
C10_NoSessionsAfterLogoutEverywhere ==
    \A userId \in Users, dbOk \in BOOLEAN, dbOk2 \in BOOLEAN, t \in now..MaxTime :
        LET S1 == invalidateAllUserSessions(Cur, userId, now, dbOk)
            g == getUserSessions(Aged(S1, t), userId, t, dbOk2)
        IN  g.ret = "list" /\ g.list = <<>>

\* A user has two live sessions that getUserSessions lists.
C10_Witness ==
    \E userId \in Users :
        /\ Cardinality(index[userId].members) = 2
        /\ Len(getUserSessions(Cur, userId, now, TRUE).list) = 2

\* C11: when the durable update of invalidateSession fails, invalidateSession
\* completes all the same and every later validateSession of the id, made
\* with the durable store answering again, returns absent.
C11_FaultedInvalidationSticks ==
    \A id \in Issued, t \in now..MaxTime :
        LET S1 == invalidateSession(Cur, id, now, FALSE)
        IN  validateSession(Aged(S1, t), id, t, TRUE).ret = "absent"

\* C12 as stated: every refreshSession that returns true leaves the session
\* with an expiry strictly greater than the one it had before the call.
C12_RefreshStrictlyExtends ==
    \A id \in SessionIds, dbOk \in BOOLEAN :
        LET v == validateSession(Cur, id, now, dbOk)
            r == refreshSession(Cur, id, now, dbOk)
        IN  r.ret = "true" => r.S.fast[id].expiresAt > v.data.expiresAt

\* C12 amended: every refreshSession that returns true leaves the session in
\* the fast store with the expiry now + TTL, which is never less than the
\* expiry it had before the call and is strictly greater when the clock has
\* moved since that expiry was set; the durable record, when the durable
\* store answers and has one, gets the same expiry.
C12_RefreshNeverShortens ==
    \A id \in SessionIds, dbOk \in BOOLEAN :
        LET v == validateSession(Cur, id, now, dbOk)
            r == refreshSession(Cur, id, now, dbOk)
            new == now + sessionTtl * TicksPerSecond
        IN  r.ret = "true" =>
                /\ v.ret = "session"
                /\ r.S.fast[id].kind = "json"
                /\ r.S.fast[id].expiresAt = new
                /\ r.S.fast[id].expiresAt >= v.data.expiresAt
                /\ r.S.fast[id].userId = v.data.userId
                /\ r.S.fast[id].jwtToken = v.data.jwtToken
                /\ (dbOk /\ db[id].exists) => r.S.db[id].expiresAt = new
                /\ ~dbOk => r.S.db = db

\* A session created earlier is refreshed after the clock has moved.
C12_Witness ==
    \E id \in Issued :
        /\ validateSession(Cur, id, now, TRUE).ret = "session"
        /\ fast[id].expiresAt < now + sessionTtl * TicksPerSecond
        /\ db[id].exists
        /\ refreshSession(Cur, id, now, TRUE).ret = "true"

\* C13: refreshSession on an id that is unknown, expired, or on which
\* invalidateSession has just completed (with or without a failure of its
\* durable update) returns false and changes no store.
C13_RefreshOfInvalidIsRefused ==
    \A id \in SessionIds :
        /\ \A dbOk \in BOOLEAN :
               LET S1 == invalidateSession(Cur, id, now, dbOk)
                   r == refreshSession(S1, id, now, TRUE)
               IN  r.ret = "false" /\ r.S = S1
        /\ (id \notin Issued \/ (db[id].exists /\ HasExpired(db[id].expiresAt, now)
                                 /\ RedisGet(fast, id, now).kind = "none")) =>
               LET r == refreshSession(Cur, id, now, TRUE)
               IN  r.ret = "false" /\ r.S = Cur

\* C14 as stated: cleanupExpiredSessions removes every durable record whose
\* expiresAt is before now and leaves every durable record whose expiresAt is
\* not yet reached as it was.
C14_CleanupRemovesExactlyExpired ==
    \A id \in SessionIds :
        LET S1 == cleanupExpiredSessions(Cur, now, TRUE)
        IN  db[id].exists =>
                IF db[id].expiresAt < now THEN ~S1.db[id].exists
                ELSE S1.db[id] = db[id]

\* C14 amended: cleanupExpiredSessions, when the durable store answers,
\* removes every durable record whose expiresAt is before now or that is
\* inactive, and leaves every active record whose expiresAt is not yet reached
\* as it was; when the durable store does not answer it removes nothing.
C14_CleanupRemovesExpiredOrInactive ==
    \A id \in SessionIds :
        LET S1 == cleanupExpiredSessions(Cur, now, TRUE)
        IN  /\ db[id].exists =>
                IF db[id].expiresAt < now \/ ~db[id].isActive THEN ~S1.db[id].exists
                ELSE S1.db[id] = db[id]
            /\ ~db[id].exists => ~S1.db[id].exists
            /\ cleanupExpiredSessions(Cur, now, FALSE) = Cur

\* One durable record has expired and another one is active and has not.
C14_Witness ==
    \E id \in Issued, other \in Issued :
        /\ db[id].exists /\ db[id].isActive /\ db[id].expiresAt < now
        /\ db[other].exists /\ db[other].isActive /\ db[other].expiresAt >= now

\* C15: a second cleanupExpiredSessions right after one that went through
\* changes neither store, whether or not the durable store answers it.
C15_SecondCleanupIsNoOp ==
    \A dbOk2 \in BOOLEAN :
        LET S1 == cleanupExpiredSessions(Cur, now, TRUE)
        IN  cleanupExpiredSessions(S1, now, dbOk2) = S1

\* Two durable records are due for removal and the fast store still holds
\* the key of one of them.
C15_Witness ==
    /\ Cardinality(DbStale(db, now)) = 2
    /\ \E id \in DbStale(db, now) : fast[id].kind # "none"
    /\ cleanupExpiredSessions(Cur, now, TRUE) # Cur

\* C16: cleanupExpiredSessions deletes neither the fast-store entry nor the
\* durable record of a session that is active and whose current expiry (the
\* one validateSession goes by) has not passed, whatever createSession,
\* validateSession and refreshSession calls came before it, a refreshSession
\* whose durable update failed included.
C16_CleanupSparesLiveSessions ==
    \A id \in SessionIds :
        LET S1 == cleanupExpiredSessions(Cur, now, TRUE)
        IN  (/\ validateSession(Cur, id, now, TRUE).ret = "session"
             /\ RedisGet(fast, id, now).kind = "json"
             /\ db[id].exists /\ db[id].isActive) =>
                /\ S1.fast[id] = fast[id]
                /\ S1.db[id].exists

\* C17: invalidateSession on an id never issued, or on an id on which it has
\* completed before, changes no store; invalidateSession twice gives the
\* stores that invalidateSession once gives.
C17_InvalidateIsIdempotent ==
    \A id \in SessionIds, dbOk \in BOOLEAN :
        /\ (id \notin Issued \/ id \in invalidated) =>
               invalidateSession(Cur, id, now, dbOk) = Cur
        /\ LET S1 == invalidateSession(Cur, id, now, TRUE)
           IN  invalidateSession(S1, id, now, dbOk) = S1
        /\ LET S1 == invalidateSession(Cur, id, now, FALSE)
           IN  invalidateSession(S1, id, now, FALSE) = S1

\* An invalidated session has an inactive durable record and another session
\* is live.
C17_Witness ==
    \E id \in invalidated, other \in Issued :
        /\ db[id].exists /\ ~db[id].isActive
        /\ validateSession(Cur, other, now, TRUE).ret = "session"
        /\ other # id

\* C18: after invalidateSession(id) for an issued id, with no store fault, the
\* fast store holds no record for id, id is in no user's session index, and
\* the durable record of id, if it had one, is still there and is inactive.
C18_InvalidationClearsFastStore ==
    \A id \in Issued :
        LET S1 == invalidateSession(Cur, id, now, TRUE)
        IN  /\ RedisGet(S1.fast, id, now).kind = "none"
            /\ \A u \in Users : id \notin RedisHgetall(S1.index, u, now)
            /\ db[id].exists => (S1.db[id].exists /\ ~S1.db[id].isActive)

\* C19: when validateSession finds a fast-store record whose expiry has
\* passed, it returns absent without a query to the durable store and the key
\* of the session is gone from the fast store afterwards, whether or not the
\* durable store answers.
C19_ExpiredRecordIsEvicted ==
    \A id \in SessionIds, dbOk \in BOOLEAN :
        LET val == RedisGet(fast, id, now)
            v == validateSession(Cur, id, now, dbOk)
        IN  (val.kind = "json" /\ val.expiresAt < now) =>
                /\ v.ret = "absent" /\ ~v.dbq
                /\ v.S.fast[id].kind = "none"

\* The fast store holds the record of a session past its expiry: the key was
\* written later than the expiry was computed and outlives it.
C19_Witness ==
    \E id \in Issued :
        /\ RedisGet(fast, id, now).kind = "json"
        /\ fast[id].expiresAt < now
        /\ id \in RedisHgetall(index, fast[id].userId, now)

\* C20: when the fast store holds a value that does not parse under a session
\* key, validateSession returns absent, never an error, and the key is gone
\* from the fast store afterwards, whether or not the durable store answers.
C20_MalformedRecordIsEvicted ==
    \A id \in SessionIds, dbOk \in BOOLEAN :
        LET val == RedisGet(fast, id, now)
            v == validateSession(Cur, id, now, dbOk)
        IN  val.kind = "corrupt" =>
                /\ v.ret = "absent" /\ ~v.dbq
                /\ v.S.fast[id].kind = "none"
                /\ v.S.index = index

\* A value that does not parse sits under the key of a session whose durable
\* record is active, and under a key that was never issued.
C20_Witness ==
    /\ \E id \in Issued :
           /\ RedisGet(fast, id, now).kind = "corrupt"
           /\ db[id].exists /\ db[id].isActive
    /\ \E id \in SessionIds \ Issued : RedisGet(fast, id, now).kind = "corrupt"

C22_StoresAgree ==
    \A id \in SessionIds :
        LET val == RedisGet(fast, id, now)
        IN  (val.kind = "json" /\ db[id].exists) =>
                /\ val.userId = db[id].userId
                /\ val.jwtToken = db[id].token

\* A session written back by the recovery path (its user's index does not name
\* it) has both records, and so has a session that createSession wrote.
C22_Witness ==
    \E id \in Issued, other \in Issued :
        /\ RedisGet(fast, id, now).kind = "json" /\ db[id].exists
        /\ id \notin RedisHgetall(index, db[id].userId, now)
        /\ RedisGet(fast, other, now).kind = "json" /\ db[other].exists
        /\ other \in RedisHgetall(index, db[other].userId, now)

\* C23: createSession, validateSession, validateSessionToken, refreshSession,
\* getUserSessions, invalidateSession and invalidateAllUserSessions leave every
\* durable record in place, whatever their arguments and whether or not the
\* durable store answers.
C23_OnlyCleanupDeletes ==
    LET Kept(d) == \A id \in SessionIds : db[id].exists => d[id].exists
    IN  \A dbOk \in BOOLEAN :
            /\ nextId \in SessionIds =>
                   \A u \in Users, c \in Tokens :
                       Kept(createSession(Cur, nextId, u, c, now, now, dbOk).S.db)
            /\ \A k \in SessionIds :
                   /\ Kept(validateSession(Cur, k, now, dbOk).S.db)
                   /\ Kept(validateSessionToken(Cur, k, now, dbOk, status).S.db)
                   /\ Kept(refreshSession(Cur, k, now, dbOk).S.db)
                   /\ Kept(invalidateSession(Cur, k, now, dbOk).db)
            /\ \A u \in Users :
                   /\ Kept(getUserSessions(Cur, u, now, dbOk).S.db)
                   /\ Kept(invalidateAllUserSessions(Cur, u, now, dbOk).db)

\* A durable record that invalidateAllUserSessions has marked inactive is
\* there, and cleanupExpiredSessions is about to delete it.
C23_Witness ==
    \E id \in Issued :
        /\ db[id].exists /\ ~db[id].isActive /\ id \notin invalidated
        /\ ~cleanupExpiredSessions(Cur, now, TRUE).db[id].exists

\* C27: on a fast-store miss, when the durable record of the id is inactive or
\* its expiry has passed, validateSession returns absent and changes no store.
C27_NoResurrection ==
    \A id \in SessionIds :
        (/\ RedisGet(fast, id, now).kind = "none"
         /\ db[id].exists
         /\ (~db[id].isActive \/ db[id].expiresAt < now)) =>
            LET v == validateSession(Cur, id, now, TRUE)
            IN  v.ret = "absent" /\ v.dbq /\ v.S = Cur

\* One session has an inactive durable record with a whole second left, another
\* an active durable record past its expiry, and the fast store has neither.
C27_Witness ==
    \E id \in Issued, other \in Issued :
        /\ RedisGet(fast, id, now).kind = "none"
        /\ db[id].exists /\ ~db[id].isActive
        /\ (db[id].expiresAt - now) \div TicksPerSecond >= 1
        /\ RedisGet(fast, other, now).kind = "none"
        /\ db[other].exists /\ db[other].isActive /\ db[other].expiresAt < now

C28_RestoredTtlIsRemainingTime ==
    \A id \in SessionIds :
        LET v == validateSession(Cur, id, now, TRUE)
        IN  (RedisGet(fast, id, now).kind = "none" /\ v.ret = "session") =>
                v.S.fast[id].ttlAt = db[id].expiresAt

\* C28 amended: the fast-store entry validateSession writes on recovery has a
\* time to live of the whole seconds remaining until the expiry of the durable
\* record, rounded down: it never outlives the durable expiry and ends less
\* than one second before it.
C28_RestoredTtlIsWholeSeconds ==
    \A id \in SessionIds :
        LET v == validateSession(Cur, id, now, TRUE)
            left == db[id].expiresAt - now
        IN  (RedisGet(fast, id, now).kind = "none" /\ v.ret = "session") =>
                /\ v.S.fast[id].kind = "json"
                /\ v.S.fast[id].expiresAt = db[id].expiresAt
                /\ v.S.fast[id].ttlAt = now + (left \div TicksPerSecond) * TicksPerSecond
                /\ v.S.fast[id].ttlAt <= db[id].expiresAt
                /\ v.S.fast[id].ttlAt > db[id].expiresAt - TicksPerSecond
                /\ \A t \in now..MaxTime :
                       RedisGet(v.S.fast, id, t).kind = "json" => t < db[id].expiresAt

\* A session has been restored with a time to live that ends before its
\* durable expiry, and another one is about to be, with a second and a half
\* left.
C28_Witness ==
    \E id \in Issued, other \in Issued :
        /\ RedisGet(fast, id, now).kind = "json"
        /\ fast[id].ttlAt < db[id].expiresAt
        /\ RedisGet(fast, other, now).kind = "none"
        /\ db[other].exists /\ db[other].isActive
        /\ db[other].expiresAt - now > TicksPerSecond
        /\ (db[other].expiresAt - now) % TicksPerSecond # 0

\* C26: cleanupExpiredSessions returns normally when a fast-store call inside
\* it throws, and then deletes no durable record; when the durable store does
\* not answer its first query, it changes neither store.
C26_CleanupNeverRaises ==
    /\ cleanupExpiredSessions(Cur, now, FALSE) = Cur
    /\ \A failId \in SessionIds, failAt \in CleanupFaults :
           LET r == cleanupExpiredSessionsRedisFault(Cur, now, failId, failAt)
           IN  /\ r.ret = "done"
               /\ failId \in DbStale(db, now) =>
                      /\ r.S.db = db
                      /\ \A k \in SessionIds :
                             r.S.fast[k] # fast[k] => (k \in DbStale(db, now) /\ k <= failId)

\* Two durable records are due for removal and the fast store still holds both
\* keys, so a failure at the second leaves the work half done.
C26_Witness ==
    /\ Cardinality(DbStale(db, now)) = 2
    /\ \A id \in DbStale(db, now) : RedisGet(fast, id, now).kind = "json"

\* C29: createSession stores the session with expiry = creation time + TTL in
\* both stores, gives the fast-store record a time to live of TTL, adds the id
\* to the owning user's index and sets the time to live of the index to TTL.
C29_CreateWritesBothStores ==
    nextId \in SessionIds =>
        \A userId \in Users, jwtToken \in Tokens :
            LET S1 == createSession(Cur, nextId, userId, jwtToken, now, now, TRUE).S
                expiry == now + sessionTtl * TicksPerSecond
            IN  /\ S1.fast[nextId].kind = "json"
                /\ S1.fast[nextId].expiresAt = expiry
                /\ S1.fast[nextId].ttlAt = now + sessionTtl * TicksPerSecond
                /\ nextId \in S1.index[userId].members
                /\ S1.index[userId].ttlAt = now + sessionTtl * TicksPerSecond
                /\ S1.db[nextId].exists /\ S1.db[nextId].isActive
                /\ S1.db[nextId].expiresAt = expiry

\* C30: when a fast-store call inside createSession throws, createSession
\* raises, returns no id, and writes no durable record.
C30_FastStoreFailureIsFatal ==
    nextId \in SessionIds =>
        \A userId \in Users, jwtToken \in Tokens, failAt \in RedisFaults :
            LET r == createSessionRedisFault(Cur, nextId, userId, jwtToken, now, now, failAt)
            IN  /\ r.ret = "raise" /\ ~r.stored
                /\ r.S.db = db
                /\ failAt = "set" => r.S = Cur

\* A createSession failed at hset: its key is in the fast store, no index
\* names it and it has no durable record; another createSession is possible.
C30_Witness ==
    /\ nextId \in SessionIds
    /\ \E id \in Issued :
           /\ RedisGet(fast, id, now).kind = "json"
           /\ ~db[id].exists
           /\ \A u \in Users : id \notin RedisHgetall(index, u, now)

\* C25: login reaches createSession only when the user was found, the status
\* of the account is ACTIVE and the password matched, and then it creates the
\* session; in every other case it creates no session in either store and,
\* when the durable store answers, raises UnauthorizedException.
C25_LoginCreatesSessionOnlyWhenVerified ==
    nextId \in SessionIds =>
        \A found \in BOOLEAN, userId \in Registered, passwordOk \in BOOLEAN, dbOk \in BOOLEAN :
            LET r == login(Cur, nextId, found, userId, passwordOk, status, now, dbOk)
                verified == found /\ status[userId] = "ACTIVE" /\ passwordOk
            IN  /\ r.ret = "ok" =>
                       /\ verified
                       /\ r.sessionId = nextId
                       /\ r.S.fast[nextId].kind = "json"
                       /\ r.S.fast[nextId].userId = userId
                /\ ~verified => r.S = Cur /\ r.ret # "ok"
                /\ (~verified /\ dbOk) => r.ret = "unauthorized"
                /\ (verified /\ dbOk) => r.ret = "ok"

\* A user who logged in while active has a live session, the account has been
\* set inactive since, and another login is possible.
C25_Witness ==
    /\ nextId \in SessionIds
    /\ \E id \in Issued :
           /\ RedisGet(fast, id, now).kind = "json"
           /\ status[fast[id].userId] = "INACTIVE"

\* C31: when a refreshSession and an invalidateSession of the same session
\* have overlapped and both have returned, the stores are as they would be had
\* the two calls run one after the other, in one order or the other, at some
\* times between the start of the first and now.
C31_RaceIsSerializable ==
    (/\ \A p \in Procs : calls[p].pc = "done"
     /\ {calls[p].op : p \in Procs} = RacedOps) =>
        \E t1 \in start.t..now, t2 \in start.t..now :
            /\ t1 <= t2
            /\ LET id == calls["a"].id
                   S0 == Aged(start.S, t1)
                   r1 == refreshSession(S0, id, t1, TRUE)
                   S12 == invalidateSession(Aged(r1.S, t2), id, t2, TRUE)
                   i1 == invalidateSession(S0, id, t1, TRUE)
                   S21 == refreshSession(Aged(i1, t2), id, t2, TRUE).S
               IN  Cur = Aged(S12, now) \/ Cur = Aged(S21, now)

\* C34: when refreshSession calls on the same session, one after the other or
\* overlapping, have all returned true, the fast-store record and the durable
\* record of the session carry the same expiry.
C34_RefreshedExpiriesAgree ==
    \A id \in SessionIds :
        (/\ \A p \in Procs : calls[p].pc \in {"idle", "done"}
         /\ \E p \in Procs : calls[p].pc = "done"
         /\ \A p \in Procs : calls[p].pc = "done" =>
                (calls[p].op = "refresh" /\ calls[p].id = id /\ calls[p].ret = "true")
         /\ RedisGet(fast, id, now).kind = "json"
         /\ db[id].exists) =>
            RedisGet(fast, id, now).expiresAt = db[id].expiresAt

\* C32: once validateSessionToken has refused a session that validateSession
\* found, because its credential does not verify or its user is not active,
\* validateSession and validateSessionToken return absent for the id from then
\* on, whether the user is active again or not and whether or not the durable
\* update of the invalidation went through.
C32_RefusalSticks ==
    \A id \in SessionIds, dbOk \in BOOLEAN, t \in now..MaxTime :
        LET v == validateSession(Cur, id, now, dbOk)
            r == validateSessionToken(Cur, id, now, dbOk, status)
            sub == JwtSub(v.data.jwtToken)
        IN  (/\ v.ret = "session" /\ r.ret = "absent"
             /\ (~JwtVerifies(v.data.jwtToken) \/ (dbOk /\ ~UserIsActive(status, sub)))) =>
                /\ validateSession(Aged(r.S, t), id, t, TRUE).ret = "absent"
                /\ validateSessionToken(Aged(r.S, t), id, t, TRUE,
                                        [status EXCEPT ![sub] = "ACTIVE"]).ret = "absent"

\* C33: after cleanupExpiredSessions (no store fault, nothing running beside
\* it), every durable record that was expired or inactive is gone, the fast
\* store holds no record under its id, and its id is not in the index of its
\* user.
C33_CleanupEvictsStaleSessions ==
    \A id \in SessionIds :
        LET S1 == cleanupExpiredSessions(Cur, now, TRUE)
        IN  (db[id].exists /\ (db[id].expiresAt < now \/ ~db[id].isActive)) =>
                /\ ~S1.db[id].exists
                /\ S1.fast[id].kind = "none"
                /\ id \notin S1.index[db[id].userId].members
                /\ \A t \in now..MaxTime :
                       validateSession(Aged(S1, t), id, t, TRUE).ret = "absent"

\* An inactive durable record has a live record in the fast store that
\* validates, and an expired durable record is still named by the index of its
\* user.
C33_Witness ==
    \E id \in Issued, other \in Issued :
        /\ db[id].exists /\ ~db[id].isActive
        /\ RedisGet(fast, id, now).kind = "json"
        /\ validateSession(Cur, id, now, TRUE).ret = "session"
        /\ db[other].exists /\ db[other].expiresAt < now
        /\ other \in RedisHgetall(index, db[other].userId, now)

\* C35: every session id that has a live record in the fast store is a member
\* of the session index of the user the record names.
C35_LiveSessionsAreIndexed ==
    \A id \in SessionIds :
        LET val == RedisGet(fast, id, now)
        IN  val.kind = "json" => id \in RedisHgetall(index, val.userId, now)

\* C36: after logout(sessionId) or logoutAll(userId), a request that carries
\* the credential of an invalidated session is not authenticated: the
\* middleware sets no user on it and the JWT strategy returns none.
C36_LoggedOutCredentialIsRefused ==
    \A id \in SessionIds :
        LET val == RedisGet(fast, id, now)
            S1 == logout(Cur, id, now, TRUE)
            S2 == logoutAll(Cur, val.userId, now, TRUE)
        IN  (val.kind = "json" /\ validateSession(Cur, id, now, TRUE).ret = "session") =>
                /\ validateSession(S1, id, now, TRUE).ret = "absent"
                /\ validateSession(S2, id, now, TRUE).ret = "absent"
                /\ AuthMiddlewareUse(S1, val.jwtToken, status) = NoUserId
                /\ JwtStrategyValidate(S1, val.jwtToken, status).ret # "user"
                /\ AuthMiddlewareUse(S2, val.jwtToken, status) = NoUserId
                /\ JwtStrategyValidate(S2, val.jwtToken, status).ret # "user"

\* C37: connectWithRetry makes at most maxRetries attempts, raises when
\* maxRetries attempts in a row have failed, and otherwise returns with
\* isConnected true and the retry counter at 0, on every call, one made after
\* an earlier call gave up included.
C37_ConnectRaisesOrConnects ==
    \A fails \in 0..maxRetries :
        LET r == connectWithRetry(Connection(isConnected, connectionRetries), fails, 0)
        IN  /\ r.attempts <= maxRetries
            /\ fails >= maxRetries => r.ret = "raise"
            /\ r.ret = "raise" \/ (r.P.isConnected /\ r.P.connectionRetries = 0)

=============================================================================
